---- MODULE Spec2Model ----
(***************************************************************************)
(* Model of the mode-picture analysis of CustomXepr (class ModePicture,    *)
(* src/customxepr/experiment/mode_picture_dataset.py).                     *)
(*                                                                         *)
(* Numbers.  The program computes in floating point; the model computes    *)
(* in integers of a fixed unit, chosen so that every product and quotient  *)
(* of the code is exact:                                                   *)
(*   frequency axis (x_data_mhz)      Hz                                   *)
(*   point quantities (x, x0, w, ...) millipoints (mp), 1 pt = 1000 mp     *)
(*   center frequency (freq0)         kHz  (9.385 GHz = 9385000)           *)
(*   Q-value, Q-value error           tenths (round(.., 1))                *)
(* Strings are sequences of one-character strings.                         *)
(* Sequences are 1-based: Python index i is element i+1.                   *)
(***************************************************************************)
EXTENDS Integers, Sequences, FiniteSets, TLC

VARIABLES mp, dicts, disk, last, used, matplotlib,
          job_queue, unfinished_tasks, jobQueueModel, posted, gui, worker,
          pause_event, pauseButton, timeout_timer, log

\* the state of the ModePictures and of the job window (JobStatusApp,
\* src/xeprtools/customxper_ui.py)
picvars == <<mp, dicts, disk, last, used, matplotlib>>

guivars == <<job_queue, unfinished_tasks, jobQueueModel, posted, gui, worker,
             pause_event, pauseButton, timeout_timer, log>>

vars == <<mp, dicts, disk, last, used, matplotlib,
          job_queue, unfinished_tasks, jobQueueModel, posted, gui, worker,
          pause_event, pauseButton, timeout_timer, log>>

\* A Python float-or-None: a finite number (v in the unit of its field),
\* inf, nan or None.
Num(v) == [k |-> "num", v |-> v]
Inf == [k |-> "inf", v |-> 0]
NaN == [k |-> "nan", v |-> 0]
None == [k |-> "none", v |-> 0]
IsNum(f) == f.k = "num"

(***************************************************************************)
(* Generic helpers                                                         *)
(***************************************************************************)
Min2(a, b) == IF a <= b THEN a ELSE b
Max2(a, b) == IF a >= b THEN a ELSE b
Abs(a) == IF a < 0 THEN -a ELSE a

Range(s) == {s[k] : k \in DOMAIN s}

SetMin(S) == CHOOSE m \in S : \A e \in S : m <= e
SetMax(S) == CHOOSE m \in S : \A e \in S : m >= e

RECURSIVE SeqSum(_)
SeqSum(s) == IF s = <<>> THEN 0 ELSE Head(s) + SeqSum(Tail(s))

RECURSIVE Flatten(_)
Flatten(ss) == IF ss = <<>> THEN <<>> ELSE Head(ss) \o Flatten(Tail(ss))

\* a Python slice bound k on a sequence of length n
PyIdx(n, k) == IF k < 0 THEN Max2(n + k, 0) ELSE Min2(k, n)

\* s[lo:hi] of Python
PySlice(s, lo, hi) == SubSeq(s, PyIdx(Len(s), lo) + 1, PyIdx(Len(s), hi))

\* round(a / b) to the nearest integer, ties to even (Python 3 round), b > 0
RoundDivPos(a, b) ==
    LET q == a \div b
        r == a % b
    IN  IF 2 * r < b THEN q
        ELSE IF 2 * r > b THEN q + 1
        ELSE IF q % 2 = 0 THEN q ELSE q + 1

RoundDiv(a, b) == IF b > 0 THEN RoundDivPos(a, b) ELSE RoundDivPos(-a, -b)

\* a point count in millipoints
MP(p) == 1000 * p

(***************************************************************************)
(* Outcomes of a Python call: a value or a raised exception               *)
(***************************************************************************)
Raise(e) == [ok |-> FALSE, err |-> e]
Return(v) == [ok |-> TRUE, val |-> v]

(***************************************************************************)
(* _get_fit_starting_points(x_data, y_data).  x_data in mp.               *)
(***************************************************************************)
\* np.argmin: Python index of the first minimum
ArgMin(y) == (CHOOSE k \in DOMAIN y :
                 /\ \A j \in DOMAIN y : y[k] <= y[j]
                 /\ \A j \in DOMAIN y : j < k => y[j] > y[k]) - 1

\* y_data[0:int(n_points * interval)]
FirstQuartile(n, y) == PySlice(y, 0, n \div 4)

\* y_data[-int(n_points * interval):-1]
LastQuartile(n, y) == PySlice(y, -(n \div 4), -1)

\* peak_index = y_data < peak_height / 2 + np.min(y_data), where
\* peak_height = baseline - min, baseline = (bs1 + bs2) / 2 and bs1, bs2 are
\* the means of the two slices s1, s2.  np.mean of an empty slice is nan,
\* and any comparison with nan is False.  The inequality
\* y < (bs1 + bs2 + 2 min) / 4 is cleared of its denominators.
\* The result is x_data[peak_index], as a set.
PeakSelFrom(x, y, s1, s2, mn) ==
    IF Len(s1) = 0 \/ Len(s2) = 0 THEN {}
    ELSE {x[k] : k \in {j \in DOMAIN y :
            4 * y[j] * Len(s1) * Len(s2)
              < SeqSum(s1) * Len(s2) + SeqSum(s2) * Len(s1)
                  + 2 * mn * Len(s1) * Len(s2)}}

PeakSel(x, y) ==
    PeakSelFrom(x, y, FirstQuartile(Len(x), y), LastQuartile(Len(x), y),
                SetMin(Range(y)))

\* fwhm = max(np.max(x_data[peak_index]) - np.min(x_data[peak_index]), 1)
MinFwhm == MP(1)

StartFrom(x, y, sel) ==
    IF sel = {} THEN Raise("ValueError")                 \* np.max of empty
    ELSE Return([center |-> x[ArgMin(y) + 1],
                 fwhm |-> Max2(SetMax(sel) - SetMin(sel), MinFwhm)])

\* Returns Raise(..) or Return([center, fwhm]); the area estimate
\* peak_height * fwhm * pi / 2 only seeds the solver and is not kept.
GetFitStartingPoints(x, y) ==
    IF y = <<>> THEN Raise("ValueError")                 \* np.argmin of empty
    ELSE IF ArgMin(y) >= Len(x) THEN Raise("IndexError") \* x_data[argmin]
    ELSE IF Len(y) # Len(x) THEN Raise("IndexError")     \* x_data[peak_index]
    ELSE StartFrom(x, y, PeakSel(x, y))

(***************************************************************************)
(* fit_qvalue(x_data, y_data, zoom_factor)                                 *)
(***************************************************************************)
\* sum(x_data < bound), sum(x_data > bound)
CountBelow(x, b) == Cardinality({k \in DOMAIN x : x[k] < b})
CountAbove(x, b) == Cardinality({k \in DOMAIN x : x[k] > b})

\* the Python indices (0-based) of the samples in x_bg / y_bg
\* x_data[0:idx1] and x_data[-idx2:-1]
BackgroundFrom(n, idx1, idx2) ==
    {i \in 0 .. n - 1 : i < PyIdx(n, idx1)}
      \cup {i \in 0 .. n - 1 : PyIdx(n, -idx2) <= i /\ i < PyIdx(n, -1)}

BackgroundIdx(x, center, fwhm) ==
    BackgroundFrom(Len(x), CountBelow(x, center - 3 * fwhm),
                   CountAbove(x, center + 3 * fwhm))

(*  The nonlinear solver (lmfit Model.fit) is an external library.  What it
    returns for given data and starting values is an input of the model, a
    record sol:
      raise    it raises (lmfit raises ValueError, e.g. on NaN residuals)
      dx0      best x0 minus the starting center (mp)
      w        best w: "start" (the starting fwhm), "neg" (minus it: the
               Lorentzian is even in (w, a) and w is unbounded), "zero"
      stderr   standard error of w, Num(mp), or None when lmfit could not
               estimate the covariance
      success  the solver's convergence flag
      npfloat  best values are numpy floats (x / 0 is inf) and not Python
               floats (x / 0 raises); it matters for w = 0 only            *)
SolW(sol, fwhm) ==
    CASE sol.w = "start" -> fwhm
      [] sol.w = "neg" -> -fwhm
      [] OTHER -> 0

\* q_value = round(self.freq0 / (w * 1e-3 / (2 * zoom_factor)), 1), tenths
QValueOf(freq0, w, zoom) == RoundDiv(20 * freq0 * zoom, w)

\* fit_result: the best values the solver returned
FitResult(sol, start) ==
    [x0 |-> start.center + sol.dx0, w |-> SolW(sol, start.fwhm),
     stderr |-> sol.stderr, success |-> sol.success, npfloat |-> sol.npfloat]

\* delta_freq, q_value and the return
FitReturn(zoom, freq0, fr) ==
    IF fr.w = 0
      THEN IF fr.npfloat THEN Return([q_value |-> Inf, fit_result |-> fr])
           ELSE Raise("ZeroDivisionError")
      ELSE Return([q_value |-> Num(QValueOf(freq0, fr.w, zoom)),
                   fit_result |-> fr])

\* fit_qvalue after the starting points sp
FitFrom(x, zoom, freq0, sol, sp) ==
    IF ~sp.ok THEN sp
    ELSE IF BackgroundIdx(x, sp.val.center, sp.val.fwhm) = {}
           THEN Raise("TypeError")                       \* np.polyfit of empty
    ELSE IF sol.raise THEN Raise("ValueError")
    ELSE FitReturn(zoom, freq0, FitResult(sol, sp.val))

FitQValue(x, y, zoom, freq0, sol) ==
    FitFrom(x, zoom, freq0, sol, GetFitStartingPoints(x, y))

(***************************************************************************)
(* get_qvalue_stderr()                                                     *)
(***************************************************************************)
\* round(self.freq0 / delta_freq ** 2 * delta_freq_stderr, 1), tenths
GetQValueStderr(freq0, fr) ==
    IF fr.stderr = None THEN Raise("TypeError")          \* None * 1e-3
    ELSE IF fr.w = 0
           THEN IF ~fr.npfloat THEN Raise("ZeroDivisionError")
                ELSE IF fr.stderr.v = 0 THEN Return(NaN) \* inf * 0.0
                ELSE Return(Inf)
    ELSE Return(Num(RoundDiv(20 * freq0 * fr.stderr.v, fr.w * fr.w)))

(***************************************************************************)
(* _points_to_mhz(n_points, zf, x0): 1e-3 / (2 * zf) * (arange - x0), Hz   *)
(***************************************************************************)
Arange(n) == [i \in 1 .. n |-> MP(i - 1)]

\* an axis one sample short
PointsToMHzShort(n_points, zf, x0) ==
    [i \in 1 .. n_points - 1 |-> (Arange(n_points)[i] - x0) \div (2 * zf)]

PointsToMHz(n_points, zf, x0) ==
    [i \in 1 .. n_points |-> (Arange(n_points)[i] - x0) \div (2 * zf)]

\* a point axis that counts the samples
MHzToPointsIndex(xs) == [i \in DOMAIN xs |-> MP(i - 1)]

\* 2 / 1e-3 * x_axis_mhz: the point axis (mp) of a frequency axis (Hz)
MHzToPoints(xs) == [i \in DOMAIN xs |-> 2 * xs[i]]

(***************************************************************************)
(* np.argsort (default kind "quicksort", which is not stable): the order   *)
(* of equal keys is not defined.  tie picks among equal keys the lowest    *)
(* index first ("stable") or the highest first ("reverse").                *)
(***************************************************************************)
RECURSIVE SortIdx(_, _, _)
SortIdx(xs, rest, tie) ==
    IF rest = {} THEN <<>>
    ELSE LET m == SetMin({xs[k] : k \in rest})
             cands == {k \in rest : xs[k] = m}
             pick == IF tie = "stable" THEN SetMin(cands) ELSE SetMax(cands)
         IN  <<pick>> \o SortIdx(xs, rest \ {pick}, tie)

\* a sort that leaves the order as it is
ArgSortNone(xs, tie) == [k \in DOMAIN xs |-> k]

ArgSort(xs, tie) == SortIdx(xs, DOMAIN xs, tie)

\* a[indices] of numpy for an index array
Take(a, indices) == [k \in DOMAIN indices |-> a[indices[k]]]

(***************************************************************************)
(* combine_data(mode_pic_data).  A dataset is a Python dict in insertion   *)
(* order: a sequence of entries [zf, curve] with distinct zf.              *)
(***************************************************************************)
Values(data) == [k \in DOMAIN data |-> data[k].curve]

\* the frequencies sorted and the absorptions left in input order
SortedCurveUnpaired(x_comb, y_comb, indices) ==
    [x_data_mhz |-> Take(x_comb, indices),
     x_data_points |-> MHzToPoints(Take(x_comb, indices)),
     y_data |-> SubSeq(y_comb, 1, Len(indices))]

\* x_axis_mhz_comb[indices], mode_pic_comb[indices] and the point axis
SortedCurve(x_comb, y_comb, indices) ==
    [x_data_mhz |-> Take(x_comb, indices),
     x_data_points |-> MHzToPoints(Take(x_comb, indices)),
     y_data |-> Take(y_comb, indices)]

\* per-zoom fits that all fit the first curve: one center for every axis
ZoomFitFirst(data, freq0, sols, k) ==
    FitQValue(Arange(Len(data[1].curve)), data[1].curve, data[1].zf,
              freq0, sols[1])

\* the per-zoom fits, in order; sols[k] is the solver's outcome for entry k
ZoomFit(data, freq0, sols, k) ==
    FitQValue(Arange(Len(data[1].curve)), data[k].curve, data[k].zf,
              freq0, sols[k])

\* concatenation, sort and return
CombineAxes(tie, x_comb, y_comb) ==
    IF Len(y_comb) < Len(x_comb) THEN Raise("IndexError") \* y_comb[indices]
    ELSE Return(SortedCurve(x_comb, y_comb, ArgSort(x_comb, tie)))

\* combine_data after the per-zoom fits; the first fit that raised ends it
CombineFits(data, tie, fits) ==
    IF \E k \in DOMAIN data : ~fits[k].ok
      THEN fits[SetMin({k \in DOMAIN data : ~fits[k].ok})]
      ELSE CombineAxes(tie,
             Flatten([k \in DOMAIN data |->
                        PointsToMHz(Len(data[1].curve), data[k].zf,
                                    fits[k].val.fit_result.x0)]),
             Flatten(Values(data)))

CombineData(data, freq0, sols, tie) ==
    IF data = <<>> THEN Raise("StopIteration")           \* next(iter(..))
    ELSE CombineFits(data, tie,
           [k \in DOMAIN data |-> ZoomFit(data, freq0, sols, k)])

(***************************************************************************)
(* Text: characters, number formatting and parsing                         *)
(***************************************************************************)
Digits == <<"0", "1", "2", "3", "4", "5", "6", "7", "8", "9">>
DigitChar(d) == Digits[d + 1]
IsDigit(c) == c \in Range(Digits)
DigitVal(c) == (CHOOSE k \in DOMAIN Digits : Digits[k] = c) - 1

\* the characters \w of the regular expression matches, among those used
Letters == {"T", "i", "m", "e", "F", "r", "q", "u", "n", "c", "y", "Q", "V",
            "a", "l", "E", "G", "H", "z", "S", "p", "f", "M", "W", "b", "s"}
IsWord(c) == c \in Letters \/ IsDigit(c) \/ c = "_"

RECURSIVE NatChars(_)
NatChars(n) == IF n < 10 THEN <<DigitChar(n)>>
               ELSE NatChars(n \div 10) \o <<DigitChar(n % 10)>>

RECURSIVE DigitsVal(_)
DigitsVal(cs) == IF cs = <<>> THEN 0
                 ELSE 10 * DigitsVal(SubSeq(cs, 1, Len(cs) - 1))
                        + DigitVal(cs[Len(cs)])

RECURSIVE StripZeros(_)
StripZeros(cs) == IF Len(cs) > 1 /\ cs[Len(cs)] = "0"
                    THEN StripZeros(SubSeq(cs, 1, Len(cs) - 1))
                    ELSE cs

RECURSIVE Filter(_, _)
Filter(cs, keep) == IF cs = <<>> THEN <<>>
                    ELSE (IF Head(cs) \in keep THEN <<Head(cs)>> ELSE <<>>)
                           \o Filter(Tail(cs), keep)

\* str() of a float given in tenths: "750800.0", "-12.5", "inf", "nan"
FloatTenthsStr(f) ==
    CASE f.k = "inf" -> <<"i", "n", "f">>
      [] f.k = "nan" -> <<"n", "a", "n">>
      [] f.k = "none" -> <<"N", "o", "n", "e">>
      [] OTHER -> (IF f.v < 0 THEN <<"-">> ELSE <<>>)
                    \o NatChars(Abs(f.v) \div 10)
                    \o <<".", DigitChar(Abs(f.v) % 10)>>

\* the digits of n, at least six of them
Pad6(cs) == IF Len(cs) >= 6 THEN cs
            ELSE SubSeq(<<"0", "0", "0", "0", "0">>, 1, 6 - Len(cs)) \o cs

\* str() of a positive float given in millionths (freq, GHz, in kHz):
\* 9385000 is "9.385", 9400000 is "9.4", 9000000 is "9.0", 100 is "0.0001".
\* Below 0.0001 Python writes the exponent: 15 is "1.5e-05", 1 is "1e-06".
FloatStr(f) ==
    IF f >= 100
      THEN NatChars(f \div 1000000) \o <<".">>
             \o StripZeros(Pad6(NatChars(f % 1000000)))
    ELSE IF f >= 10
      THEN <<DigitChar(f \div 10)>>
             \o (IF f % 10 = 0 THEN <<>> ELSE <<".", DigitChar(f % 10)>>)
             \o <<"e", "-", "0", "5">>
    ELSE <<DigitChar(f), "e", "-", "0", "6">>

\* float(cs) for a string of digits and dots, in millionths: Raise when
\* Python's float() rejects it (no digit, or more than one dot).  Digits
\* after the sixth decimal are dropped (the inputs have at most six).
ParseFloat(cs) ==
    LET dots == {k \in DOMAIN cs : cs[k] = "."}
        ndig == Cardinality({k \in DOMAIN cs : IsDigit(cs[k])})
    IN  IF Cardinality(dots) > 1 \/ ndig = 0 THEN Raise("ValueError")
        ELSE LET d == IF dots = {} THEN Len(cs) + 1 ELSE SetMin(dots)
                 ip == SubSeq(cs, 1, d - 1)
                 fp == SubSeq(SubSeq(cs, d + 1, Len(cs))
                                \o <<"0", "0", "0", "0", "0", "0">>,
                              1, 6)
             IN  Return(1000000 * DigitsVal(ip) + DigitsVal(fp))

(***************************************************************************)
(* Python dicts (insertion ordered): sequences of entries [key, val].      *)
(* A metadata value is a string [s] or a float [f] (QValue, QValueErr).    *)
(***************************************************************************)
StrVal(cs) == [t |-> "str", s |-> cs, f |-> None]
FloatVal(f) == [t |-> "float", s |-> <<>>, f |-> f]

\* what an f-string makes of a value
ValueStr(v) == IF v.t = "str" THEN v.s ELSE FloatTenthsStr(v.f)

HasKey(d, key) == \E k \in DOMAIN d : d[k].key = key
DictGet(d, key) == d[CHOOSE k \in DOMAIN d : d[k].key = key].val
DictSet(d, key, v) ==
    IF HasKey(d, key)
      THEN [k \in DOMAIN d |-> IF d[k].key = key
                                 THEN [key |-> key, val |-> v] ELSE d[k]]
      ELSE Append(d, [key |-> key, val |-> v])

kTime == <<"T", "i", "m", "e">>
kFrequency == <<"F", "r", "e", "q", "u", "e", "n", "c", "y">>
kQValue == <<"Q", "V", "a", "l", "u", "e">>
kQValueErr == <<"Q", "V", "a", "l", "u", "e", "E", "r", "r">>
sGHz == <<" ", "G", "H", "z">>

(***************************************************************************)
(* The text file.  A file is its comment lines (each a string, in order,   *)
(* before the table) and the rows of its table; a number of the table is   *)
(* the value its text denotes.                                             *)
(***************************************************************************)
\* The table is written with '%.9E': one digit before the point and nine
\* after it, of a double that carries about seventeen.  The numbers of the
\* model carry up to five digits, of which the file keeps FileDigits.
FileDigits == 2

RECURSIVE Pow10(_)
Pow10(n) == IF n = 0 THEN 1 ELSE 10 * Pow10(n - 1)

NumDigits(a) == Len(NatChars(a))

\* the value denoted by the text '%.<FileDigits - 1>E' % v
FmtE(v) ==
    LET a == Abs(v)
        e == NumDigits(a)
        unit == Pow10(e - FileDigits)
    IN  IF e <= FileDigits THEN v
        ELSE (IF v < 0 THEN -1 ELSE 1) * RoundDivPos(a, unit) * unit

\* src is the curve and the metadata save() wrote the file from (<<>> for
\* any other file); nothing reads it but the claims
NoFile == [exists |-> FALSE, lines |-> <<>>, rows |-> <<>>, src |-> <<>>]

sColumnTitles == <<"f", "r", "e", "q", " ", "[", "M", "H", "z", "]", "\t",
                   "M", "W", " ", "a", "b", "s", ".", " ", "[", "a", ".",
                   "u", ".", "]">>

\* "\n".join(lines)
RECURSIVE JoinLines(_)
JoinLines(ls) == IF ls = <<>> THEN <<>>
                 ELSE IF Len(ls) = 1 THEN ls[1]
                 ELSE ls[1] \o <<"\n">> \o JoinLines(Tail(ls))

\* text.split("\n")
RECURSIVE SplitLines(_)
SplitLines(cs) ==
    LET nl == {k \in DOMAIN cs : cs[k] = "\n"}
    IN  IF nl = {} THEN <<cs>>
        ELSE <<SubSeq(cs, 1, SetMin(nl) - 1)>>
               \o SplitLines(SubSeq(cs, SetMin(nl) + 1, Len(cs)))

\* np.savetxt(header=..., comments='# '): every line of the header is
\* written after the comment prefix
CommentLines(header) ==
    LET ls == SplitLines(header)
    IN  [k \in DOMAIN ls |-> <<"#", " ">> \o ls[k]]

\* save(filepath): the file written for a curve and a metadata dict
SavedFile(x_data_mhz, y_data, md) ==
    LET metadata == [k \in DOMAIN md |->
                       md[k].key \o <<":", "\t">> \o ValueStr(md[k].val)]
        header == JoinLines(metadata \o <<sColumnTitles>>)
    IN  [exists |-> TRUE,
         lines |-> CommentLines(header),
         rows |-> [k \in DOMAIN x_data_mhz |->
                     <<FmtE(x_data_mhz[k]), FmtE(y_data[k])>>],
         src |-> <<x_data_mhz, y_data, md>>]

\* re.match(r"# (?P<key>\w*):\t(?P<value>.*)", line): the end of the key,
\* or 0 when the line does not match
KeyEnd(line) ==
    IF Len(line) < 2 \/ line[1] # "#" \/ line[2] # " " THEN 0
    ELSE LET stop == {k \in 3 .. Len(line) : ~IsWord(line[k])}
             c == IF stop = {} THEN Len(line) + 1 ELSE SetMin(stop)
         IN  IF c + 1 <= Len(line) /\ line[c] = ":" /\ line[c + 1] = "\t"
               THEN c ELSE 0

\* the loop of load() over the metadata lines, into an emptied dict
RECURSIVE ParseLines(_, _)
ParseLines(ls, d) ==
    IF ls = <<>> THEN d
    ELSE LET line == Head(ls)
             c == KeyEnd(line)
         IN  ParseLines(Tail(ls),
               IF c = 0 THEN d
               ELSE DictSet(d, SubSeq(line, 3, c - 1),
                            StrVal(SubSeq(line, c + 2, Len(line)))))

\* lines[:metadata_length] of the comment lines; metadata_length is
\* header_length - 1 (-1 for a file without comment lines, whose lines are
\* then table rows, which never match)
StartsWithHash(line) == Len(line) >= 1 /\ line[1] = "#"

MetadataLines(file) ==
    LET header_length == Cardinality({k \in DOMAIN file.lines :
                                        StartsWithHash(file.lines[k])})
    IN  IF header_length = 0 THEN <<>>
        ELSE PySlice(file.lines, 0, header_length - 1)

FreqChars == Range(Digits) \cup {"."}

(***************************************************************************)
(* ModePicture objects.  metadata is a reference into dicts: "caller" is   *)
(* the mapping the caller holds and passes, Own(i) the dict that           *)
(* ModePicture i created for itself ({}).                                  *)
(***************************************************************************)
Inst == {1, 2}
Own(i) == IF i = 1 THEN "own1" ELSE "own2"
DictIds == {"caller", "own1", "own2"}

NoFit == [x0 |-> 0, w |-> 0, stderr |-> None, success |-> FALSE,
          npfloat |-> FALSE]

\* no object / an object none of whose attributes is set yet
Blank == [alive |-> FALSE, x_data_mhz |-> <<>>, x_data_points |-> <<>>,
          y_data |-> <<>>, freq0 |-> None, qvalue |-> None,
          qvalue_stderr |-> None, fit_result |-> NoFit,
          metadata |-> "caller", mode_pic_data |-> <<>>]

\* The outcome of a method on an object: the object and its metadata dict
\* as the method leaves them, and the exception raised ("" for none).
Outcome(obj, md, e) == [obj |-> obj, md |-> md, err |-> e]

\* self.qvalue_stderr = self.get_qvalue_stderr()
StoreStderr(o, se) ==
    IF ~se.ok THEN [obj |-> o, err |-> se.err]
    ELSE [obj |-> [o EXCEPT !.qvalue_stderr = se.val], err |-> ""]

\* self.qvalue, self.fit_result = fit
StoreFit(o, freq, fit) ==
    IF ~fit.ok THEN [obj |-> o, err |-> fit.err]
    ELSE StoreStderr([o EXCEPT !.qvalue = fit.val.q_value,
                               !.fit_result = fit.val.fit_result],
                     GetQValueStderr(freq, fit.val.fit_result))

\* a final fit with the zoom factor of the last curve of the dataset
FitObjectZoom(o, freq, sol) ==
    StoreFit(o, freq,
             FitQValue(o.x_data_points, o.y_data,
                       IF o.mode_pic_data = <<>> THEN 1
                       ELSE o.mode_pic_data[Len(o.mode_pic_data)].zf,
                       freq, sol))

\* the final fit of __init__ and of load: fit_qvalue on the whole curve
\* (zoom factor 1), then get_qvalue_stderr
FitObject(o, freq, sol) ==
    StoreFit(o, freq, FitQValue(o.x_data_points, o.y_data, 1, freq, sol))

\* a load that takes the Q-value the header holds, when it holds one
\* (the text of a float with one decimal, read in tenths)
LoadFittedHeader(md1, r) ==
    IF r.err = "" /\ HasKey(md1, kQValue)
      THEN Outcome([r.obj EXCEPT !.qvalue =
                      Num(DigitsVal(Filter(ValueStr(DictGet(md1, kQValue)),
                                           Range(Digits))))],
                   md1, r.err)
      ELSE Outcome(r.obj, md1, r.err)

LoadFitted(md1, r) == Outcome(r.obj, md1, r.err)

\* self.freq0 = float(freq_str) and the fit
LoadFreq(o1, md1, sol, fq) ==
    IF ~fq.ok THEN Outcome(o1, md1, fq.err)              \* float('')
    ELSE LoadFitted(md1, FitObject([o1 EXCEPT !.freq0 = Num(fq.val)],
                                   fq.val, sol))

\* load after the header was parsed into the emptied dict
LoadParsed(o1, md1, sol) ==
    IF ~HasKey(md1, kFrequency) THEN Outcome(o1, md1, "KeyError")
    ELSE LoadFreq(o1, md1, sol,
           ParseFloat(Filter(ValueStr(DictGet(md1, kFrequency)),
                                  FreqChars)))

\* a reader that takes the first row of the table for a header line
ColumnSkip(rows, c) == [k \in 1 .. Len(rows) - 1 |-> rows[k + 1][c]]

Column(rows, c) == [k \in DOMAIN rows |-> rows[k][c]]

\* load(path) on object obj whose metadata dict holds md
Load(obj, md, file, sol) ==
    IF ~file.exists THEN Outcome(obj, md, "OSError")     \* np.loadtxt
    ELSE IF Len(file.rows) < 2
           THEN Outcome(obj, md, "IndexError")           \* data_matrix[:, 0]
    ELSE LoadParsed([obj EXCEPT !.x_data_mhz = Column(file.rows, 1),
                                !.y_data = Column(file.rows, 2),
                                !.x_data_points =
                                    MHzToPoints(Column(file.rows, 1))],
                    ParseLines(MetadataLines(file), <<>>), sol)

\* a header without the error of the Q-value
WriteMetadataNoErr(md, now, freq, qvalue, qvalue_stderr) ==
    DictSet(DictSet(DictSet(md, kTime, StrVal(now)),
                    kFrequency, StrVal(FloatStr(freq) \o sGHz)),
            kQValue, FloatVal(qvalue))

\* self.metadata["Time"] = ... to self.metadata["QValueErr"] = ...
WriteMetadata(md, now, freq, qvalue, qvalue_stderr) ==
    DictSet(DictSet(DictSet(DictSet(md, kTime, StrVal(now)),
                            kFrequency, StrVal(FloatStr(freq) \o sGHz)),
                    kQValue, FloatVal(qvalue)),
            kQValueErr, FloatVal(qvalue_stderr))

InitFitted(md, freq, now, r) ==
    IF r.err # "" THEN Outcome(r.obj, md, r.err)
    ELSE Outcome([r.obj EXCEPT !.alive = TRUE],
                 WriteMetadata(md, now, freq, r.obj.qvalue,
                               r.obj.qvalue_stderr), "")

InitCombined(o0, md, freq, sol, now, comb) ==
    IF ~comb.ok THEN Outcome(o0, md, comb.err)
    ELSE InitFitted(md, freq, now,
           FitObject([o0 EXCEPT !.x_data_mhz = comb.val.x_data_mhz,
                                !.x_data_points = comb.val.x_data_points,
                                !.y_data = comb.val.y_data],
                     freq, sol))

\* __init__(input_path_or_data: dict, freq, metadata) after
\* self.metadata = ...: md is the content of the dict self.metadata names
InitFromData(mdref, md, data, freq, sols, sol, tie, now) ==
    InitCombined([Blank EXCEPT !.metadata = mdref, !.mode_pic_data = data,
                               !.freq0 = Num(freq)],
                 md, freq, sol, now, CombineData(data, freq, sols, tie))

\* self.metadata = metadata if metadata else {}: the dict the new object
\* i names, for the argument marg (None, or "caller": the caller's mapping)
MetadataRef(i, marg, callerdict) ==
    IF marg = "caller" /\ callerdict # <<>> THEN "caller" ELSE Own(i)

(***************************************************************************)
(* Inputs                                                                  *)
(***************************************************************************)
\* curves of eight samples (the shortest for which the starting points
\* exist: the last-quartile slice y[-2:-1] is empty for fewer)
cNarrow == <<5, 5, 5, 5, 1, 5, 5, 5>>
cWide == <<6, 5, 4, 2, 0, 3, 5, 6>>
cFlat == <<5, 5, 5, 5, 5, 5, 5, 5>>
cLong == <<5, 5, 5, 5, 1, 5, 5, 5, 5>>
cShort == <<5, 5, 5, 5, 1, 5, 5>>

Entry(zf, curve) == [zf |-> zf, curve |-> curve]

dOne == <<Entry(1, cNarrow)>>
dTwo == <<Entry(1, cNarrow), Entry(2, cWide)>>
dTwoRev == <<Entry(4, cWide), Entry(2, cNarrow)>>
dLonger == <<Entry(1, cNarrow), Entry(2, cLong)>>
dShorter == <<Entry(1, cNarrow), Entry(2, cShort)>>
dFlat == <<Entry(1, cFlat)>>
dEmpty == <<>>

Datasets == {dOne, dTwo, dTwoRev, dLonger, dShorter, dFlat, dEmpty}

\* center frequencies, kHz
Freqs == {9385000, 9400000}

\* time.strftime("%H:%M, %d/%m/%Y")
Times == {<<"1", "2", ":", "3", "0", ",", " ", "0", "1", "/", "0", "2", "/",
            "2", "0", "2", "0">>}

Ties == {"stable", "reverse"}

Sol(raise, dx0, w, stderr, success, npfloat) ==
    [raise |-> raise, dx0 |-> dx0, w |-> w, stderr |-> stderr,
     success |-> success, npfloat |-> npfloat]

solGood == Sol(FALSE, 0, "start", Num(2), TRUE, FALSE)
solShift == Sol(FALSE, 504, "start", Num(4), TRUE, FALSE)
solNeg == Sol(FALSE, 0, "neg", Num(2), TRUE, FALSE)
solNoErr == Sol(FALSE, 0, "start", None, TRUE, FALSE)
solUnconv == Sol(FALSE, 0, "start", Num(2), FALSE, FALSE)
solUnconvNoErr == Sol(FALSE, 0, "start", None, FALSE, FALSE)
solZeroPy == Sol(FALSE, 0, "zero", Num(2), FALSE, FALSE)
solZeroNp == Sol(FALSE, 0, "zero", Num(2), FALSE, TRUE)
solRaise == Sol(TRUE, 0, "start", None, FALSE, FALSE)

\* no fit in the call
solNone == Sol(FALSE, 0, "none", None, FALSE, FALSE)

\* outcomes of the solver in the final fit
FinalSols == {solGood, solShift, solNeg, solNoErr, solUnconv, solUnconvNoErr,
              solZeroPy, solZeroNp, solRaise}

\* outcomes of the solver in a per-zoom fit of combine_data, which reads
\* best_values["x0"] and divides by best_values["w"] only
ZoomSols == {solGood, solShift, solZeroPy, solRaise}

MetadataArgs == {"none", "caller"}

Paths == {"a.txt"}

(***************************************************************************)
(* State                                                                   *)
(*   mp[i]     the ModePicture the caller's variable i holds (Blank: none) *)
(*   dicts[d]  the content of dict d                                       *)
(*   disk[p]   the file at path p                                          *)
(*   last      the last call: operation, variable, exception raised ("")   *)
(*             and inputs (dataset, metadata argument, what the solver     *)
(*             returned in the per-zoom fits, path, what the solver        *)
(*             returned in the final fit)                                  *)
(*   used      the variables a constructor was called for: a variable is   *)
(*             the target of one constructor call                          *)
(*   matplotlib  the plotting library can be imported (it is not among the *)
(*             imports of the module, and only plot() imports it)          *)
(***************************************************************************)
\* no job window exists
GuiIdle == [pc |-> "idle", n |-> 0, i0 |-> 0, i1 |-> 0, err |-> ""]
TimerOff == [active |-> FALSE, left |-> 0]
\* what a run has seen so far (no state of the program): jobs put, status
\* records logged from other threads, time since the last status signal
\* reached the window, the kind of that signal, the jobs the running or
\* last on_clear_clicked took and the task_done calls it made, the jobs in
\* the rows selected when the context menu opened and the jobs its
\* deletion removed
NoLog == [jobs |-> 0, updates |-> 0, since |-> 0, signal |-> "none",
          cleared |-> <<>>, done |-> 0, shown |-> <<>>, deleted |-> <<>>]

NoWindow ==
    /\ job_queue = <<>>
    /\ unfinished_tasks = 0
    /\ jobQueueModel = <<>>
    /\ posted = <<>>
    /\ gui = GuiIdle
    /\ worker = 0
    /\ pause_event = FALSE
    /\ pauseButton = "Pause"
    /\ timeout_timer = TimerOff
    /\ log = NoLog

Call(op, i, e, data, marg, sols, path, sol) ==
    [op |-> op, i |-> i, err |-> e, data |-> data, marg |-> marg,
     sols |-> sols, path |-> path, sol |-> sol]

CallerDicts == {<<>>,
                <<[key |-> <<"S">>, val |-> StrVal(<<"p", "f">>)]>>}

Init ==
    /\ mp = [i \in Inst |-> Blank]
    /\ \E c \in CallerDicts :
         dicts = [d \in DictIds |-> IF d = "caller" THEN c ELSE <<>>]
    /\ disk = [p \in Paths |-> NoFile]
    /\ last = Call("init", 1, "", <<>>, "none", <<>>, "", solNone)
    /\ used = {}
    /\ matplotlib = TRUE
    /\ NoWindow

\* the dict a new object takes its first metadata from
FirstMetadata(ref) == IF ref = "caller" THEN dicts["caller"] ELSE <<>>

\* a constructor call ends: the variable is assigned when nothing was
\* raised; what the call did to the caller's mapping stays in any case
Constructed(op, i, data, marg, sols, path, sol, ref, out) ==
    /\ i \notin used
    /\ used' = used \cup {i}
    /\ last' = Call(op, i, out.err, data, marg, sols, path, sol)
    /\ IF out.err = ""
         THEN /\ mp' = [mp EXCEPT ![i] = [out.obj EXCEPT !.alive = TRUE]]
              /\ dicts' = [dicts EXCEPT ![ref] = out.md]
         ELSE /\ mp' = mp
              /\ dicts' = IF ref = "caller"
                            THEN [dicts EXCEPT !["caller"] = out.md]
                            ELSE dicts
    /\ UNCHANGED <<disk, matplotlib, guivars>>

\* mp[i] = ModePicture(data, freq, metadata)
New(i, data, freq, marg, sols, sol, tie, now) ==
    Constructed("new", i, data, marg, sols, "", sol,
      MetadataRef(i, marg, dicts["caller"]),
      InitFromData(MetadataRef(i, marg, dicts["caller"]),
                   FirstMetadata(MetadataRef(i, marg, dicts["caller"])),
                   data, freq, sols, sol, tie, now))

\* mp[i] = ModePicture(path, metadata=metadata)
NewFromFile(i, p, marg, sol) ==
    Constructed("newfile", i, <<>>, marg, <<>>, p, sol,
      MetadataRef(i, marg, dicts["caller"]),
      Load([Blank EXCEPT !.metadata = MetadataRef(i, marg, dicts["caller"])],
           FirstMetadata(MetadataRef(i, marg, dicts["caller"])),
           disk[p], sol))

\* a load() call ends: the object is as load left it
Loaded(i, p, sol, out) ==
    /\ last' = Call("load", i, out.err, <<>>, "none", <<>>, p, sol)
    /\ mp' = [mp EXCEPT ![i] = out.obj]
    /\ dicts' = [dicts EXCEPT ![mp[i].metadata] = out.md]

\* mp[i].load(path)
LoadFile(i, p, sol) ==
    /\ mp[i].alive
    /\ Loaded(i, p, sol, Load(mp[i], dicts[mp[i].metadata], disk[p], sol))
    /\ UNCHANGED <<disk, used, matplotlib, guivars>>

\* mp[i].save(path)
Save(i, p) ==
    /\ mp[i].alive
    /\ disk' = [disk EXCEPT ![p] = SavedFile(mp[i].x_data_mhz, mp[i].y_data,
                                             dicts[mp[i].metadata])]
    /\ last' = Call("save", i, "", <<>>, "none", <<>>, p, solNone)
    /\ UNCHANGED <<mp, dicts, used, matplotlib, guivars>>

\* import matplotlib.pyplot as plt: what plot() raises
PlotErrorNone(lib) == ""

PlotError(lib) == IF lib THEN "" ELSE "ImportError"

\* mp[i].plot(): with the library a figure is shown, which is no state of
\* the program
Plot(i) ==
    /\ mp[i].alive
    /\ last' = Call("plot", i, PlotError(matplotlib), <<>>, "none", <<>>, "",
                    solNone)
    /\ UNCHANGED <<mp, dicts, disk, used, matplotlib, guivars>>

\* files that did not come from save()
hTime == <<"#", " ">> \o kTime \o <<":", "\t", "1", "2", ":", "3", "0">>
hFreq == <<"#", " ">> \o kFrequency \o <<":", "\t", "9", ".", "3", "8", "5">>
           \o sGHz
hFreqNoNumber == <<"#", " ">> \o kFrequency \o <<":", "\t", "n", ".", "a", ".">>
hFreqUnit == <<"#", " ">> \o kFrequency \o <<":", "\t">> \o sGHz
hTitles == <<"#", " ">> \o sColumnTitles
hQValue(cs) == <<"#", " ">> \o kQValue \o <<":", "\t">> \o cs
hQValueErr(cs) == <<"#", " ">> \o kQValueErr \o <<":", "\t">> \o cs

extRows == [k \in 1 .. 8 |-> <<500 * (k - 5), cNarrow[k]>>]

File(lines, rows) ==
    [exists |-> TRUE, lines |-> lines, rows |-> rows, src |-> <<>>]

fGood == File(<<hTime, hFreq, hTitles>>, extRows)
fNoFreq == File(<<hTime, hTitles>>, extRows)
fNoNumber == File(<<hTime, hFreqNoNumber, hTitles>>, extRows)
fUnitOnly == File(<<hFreqUnit, hTitles>>, extRows)
fNoTitles == File(<<hTime, hFreq>>, extRows)
fNoHeader == File(<<>>, extRows)
\* two files that differ in the Q-value and error of their headers only
fQLow == File(<<hTime, hFreq, hQValue(<<"1", ".", "5">>),
                hQValueErr(<<"0", ".", "1">>), hTitles>>, extRows)
fQHigh == File(<<hTime, hFreq, hQValue(<<"9", "0", ".", "0">>),
                 hQValueErr(<<"2", ".", "5">>), hTitles>>, extRows)
fOneRow == File(<<hTime, hFreq, hTitles>>, <<extRows[1]>>)

ExternalFiles == {fGood, fNoFreq, fNoNumber, fUnitOnly, fNoTitles, fNoHeader,
                  fOneRow}

\* a file is put at path p from outside the program
PutFile(p, f) ==
    /\ disk' = [disk EXCEPT ![p] = f]
    /\ last' = Call("put", 1, "", <<>>, "none", <<>>, p, solNone)
    /\ UNCHANGED <<mp, dicts, used, matplotlib, guivars>>

(***************************************************************************)
(* Specifications                                                          *)
(***************************************************************************)
DoNew(I, D, F, M, ZS, FS) ==
    \E i \in I, data \in D, freq \in F, marg \in M,
       sol \in FS, tie \in Ties, now \in Times :
      \E sols \in [DOMAIN data -> ZS] :
        New(i, data, freq, marg, sols, sol, tie, now)

DoNewFromFile(I, M, FS) ==
    \E i \in I, p \in Paths, marg \in M, sol \in FS :
      NewFromFile(i, p, marg, sol)

DoLoadFile(I, FS) ==
    \E i \in I, p \in Paths, sol \in FS : LoadFile(i, p, sol)

DoSave(I) == \E i \in I, p \in Paths : Save(i, p)

DoPutFile == \E p \in Paths, f \in ExternalFiles : PutFile(p, f)

\* Spec: construction from every dataset with every outcome of the solver
NewData == DoNew({1}, Datasets, Freqs, MetadataArgs, ZoomSols, FinalSols)

Next == NewData

Spec == Init /\ [][Next]_vars

\* SpecFile: one ModePicture and one file; construction, save, load
FileSols == {solGood, solNoErr, solUnconv, solRaise}

NewTwo == DoNew({1}, {dTwo}, {9385000}, {"none"}, {solGood, solShift}, FileSols)
NewFile == DoNewFromFile({2}, {"none"}, FileSols)
LoadOne == DoLoadFile({1}, FileSols)
SaveOne == DoSave({1})

NextFile == NewTwo \/ NewFile \/ LoadOne \/ SaveOne \/ DoPutFile

InitFile == Init /\ dicts["caller"] = <<>>

SpecFile == InitFile /\ [][NextFile]_vars

\* SpecReload: files that differ in the Q-value of their headers, loaded
\* into a new ModePicture (2) and into an old one (1)
ReloadSols == {solGood, solShift, solNoErr}

NewOne == DoNew({1}, {dOne}, {9385000}, {"none"}, {solGood}, {solGood})
NewFileReload == DoNewFromFile({2}, {"none"}, ReloadSols)
LoadReload == DoLoadFile({1}, ReloadSols)
SaveReload == DoSave({1})
PutReload == \E p \in Paths, f \in {fGood, fQLow, fQHigh} : PutFile(p, f)

NextReload ==
    NewOne \/ NewFileReload \/ LoadReload \/ SaveReload \/ PutReload

SpecReload == InitFile /\ [][NextReload]_vars

\* SpecMeta: a ModePicture (1) with the caller's metadata, saved, and the
\* file loaded into it and into a new one (2)
MetaDicts == {<<[key |-> <<"S">>, val |-> StrVal(<<"p", "f">>)]>>,
              <<[key |-> <<"S", " ", "p">>, val |-> StrVal(<<"p", "f">>)]>>}

InitMeta ==
    /\ mp = [i \in Inst |-> Blank]
    /\ \E c \in MetaDicts :
         dicts = [d \in DictIds |-> IF d = "caller" THEN c ELSE <<>>]
    /\ disk = [p \in Paths |-> NoFile]
    /\ last = Call("init", 1, "", <<>>, "none", <<>>, "", solNone)
    /\ used = {}
    /\ matplotlib = TRUE
    /\ NoWindow

MetaSols == {solGood, solShift, solNoErr}

NewMeta == DoNew({1}, {dOne}, Freqs, MetadataArgs, {solGood}, MetaSols)
NewFileMeta == DoNewFromFile({2}, {"none"}, MetaSols)
LoadMeta == DoLoadFile({1}, MetaSols)
SaveMeta == DoSave({1})
PutMeta == \E p \in Paths, f \in {fGood, fNoFreq} : PutFile(p, f)

NextMeta == NewMeta \/ NewFileMeta \/ LoadMeta \/ SaveMeta \/ PutMeta

SpecMeta == InitMeta /\ [][NextMeta]_vars

\* SpecFreq: a ModePicture (1) constructed with a usual or a very low
\* center frequency and saved, and the file loaded into a new one (2)
FreqsAny == {9385000, 15}

NewAnyFreq == DoNew({1}, {dOne}, FreqsAny, {"none"}, {solGood}, MetaSols)
NewFileAnyFreq == DoNewFromFile({2}, {"none"}, MetaSols)
LoadAnyFreq == DoLoadFile({2}, MetaSols)
SaveAnyFreq == DoSave({1})
PutAnyFreq == \E p \in Paths, f \in {fGood, fNoFreq} : PutFile(p, f)

NextFreq ==
    NewAnyFreq \/ NewFileAnyFreq \/ LoadAnyFreq \/ SaveAnyFreq \/ PutAnyFreq

SpecFreq == InitFile /\ [][NextFreq]_vars

\* SpecPlot: the operations with and without the plotting library
InitPlot ==
    /\ mp = [i \in Inst |-> Blank]
    /\ dicts = [d \in DictIds |-> <<>>]
    /\ disk = [p \in Paths |-> NoFile]
    /\ last = Call("init", 1, "", <<>>, "none", <<>>, "", solNone)
    /\ used = {}
    /\ matplotlib \in BOOLEAN
    /\ NoWindow

DoPlot(I) == \E i \in I : Plot(i)

NewPlot == DoNew({1}, {dOne, dTwo}, {9385000}, {"none"}, {solGood}, MetaSols)
NewFilePlot == DoNewFromFile({2}, {"none"}, MetaSols)
LoadPlot == DoLoadFile({1}, MetaSols)
SavePlot == DoSave({1})
PutPlot == \E p \in Paths, f \in {fGood, fNoFreq} : PutFile(p, f)

NextPlot ==
    NewPlot \/ NewFilePlot \/ LoadPlot \/ SavePlot \/ PutPlot \/ DoPlot(Inst)

SpecPlot == InitPlot /\ [][NextPlot]_vars

\* SpecShared: two ModePictures and the mapping their caller holds
SharedSols == {solGood, solNoErr}

NewShared == DoNew(Inst, {dOne}, {9385000}, MetadataArgs, {solGood}, SharedSols)
NewFileShared == DoNewFromFile(Inst, MetadataArgs, SharedSols)
LoadShared == DoLoadFile(Inst, SharedSols)
SaveShared == DoSave(Inst)
PutShared == \E p \in Paths, f \in {fGood, fNoFreq} : PutFile(p, f)

NextShared ==
    NewShared \/ NewFileShared \/ LoadShared \/ SaveShared \/ PutShared

SpecShared == Init /\ [][NextShared]_vars

(***************************************************************************)
(* Claims about combine_data, checked under Spec                           *)
(***************************************************************************)
IsSorted(xs) == \A k \in 1 .. Len(xs) - 1 : xs[k] <= xs[k + 1]

\* the ModePictures that were constructed from a dataset
FromData(i) == mp[i].alive /\ mp[i].mode_pic_data # <<>>

\* C1: the frequency axis of every ModePicture constructed from a dataset
\* (what combine_data returned) is sorted in non-decreasing order.
C1_FrequencySorted == \A i \in Inst : FromData(i) => IsSorted(mp[i].x_data_mhz)

\* a ModePicture of two zoom factors whose concatenated axes were not in
\* order, and whose sorted axis holds equal frequencies
C1_Witness ==
    \E i \in Inst :
      /\ FromData(i)
      /\ Len(mp[i].mode_pic_data) = 2
      /\ mp[i].y_data # Flatten(Values(mp[i].mode_pic_data))
      /\ \E k \in 1 .. Len(mp[i].x_data_mhz) - 1 :
           mp[i].x_data_mhz[k] = mp[i].x_data_mhz[k + 1]

\* C2: the three sequences combine_data returned have the same length, the
\* sum of the lengths of the input curves.
SumLen(data) == SeqSum([k \in DOMAIN data |-> Len(data[k].curve)])

C2_LengthsAgree ==
    \A i \in Inst :
      FromData(i) =>
        /\ Len(mp[i].x_data_mhz) = SumLen(mp[i].mode_pic_data)
        /\ Len(mp[i].x_data_points) = SumLen(mp[i].mode_pic_data)
        /\ Len(mp[i].y_data) = SumLen(mp[i].mode_pic_data)

C2_Witness ==
    \E i \in Inst : FromData(i) /\ Len(mp[i].mode_pic_data) = 2
                      /\ Len(mp[i].y_data) = 16

\* C3: the (frequency, absorption) pairs of the combined curve are, as a
\* multiset, the pairs (frequency of sample k of zoom z, absorption of
\* sample k of zoom z) over all zoom factors and samples of the dataset.
Pairs(xs, ys) == [k \in DOMAIN xs |-> <<xs[k], ys[k]>>]

Count(s, e) == Cardinality({k \in DOMAIN s : s[k] = e})

SameBag(s, t) == \A e \in Range(s) \cup Range(t) : Count(s, e) = Count(t, e)

\* the pairs of the dataset, each zoom factor on its own axis
InputPairs(data, sols) ==
    Flatten([k \in DOMAIN data |->
      Pairs(PointsToMHz(Len(data[k].curve), data[k].zf,
                        GetFitStartingPoints(Arange(Len(data[k].curve)),
                                             data[k].curve).val.center
                          + sols[k].dx0),
            data[k].curve)])

C3_PairsKept ==
    (last.op = "new" /\ last.err = "") =>
      SameBag(Pairs(mp[last.i].x_data_mhz, mp[last.i].y_data),
              InputPairs(last.data, last.sols))

\* two zoom factors that put different absorptions at one frequency
C3_Witness ==
    /\ last.op = "new" /\ last.err = "" /\ Len(last.data) = 2
    /\ \E k \in 1 .. Len(mp[last.i].x_data_mhz) - 1 :
         /\ mp[last.i].x_data_mhz[k] = mp[last.i].x_data_mhz[k + 1]
         /\ mp[last.i].y_data[k] # mp[last.i].y_data[k + 1]

\* C4: constructing a ModePicture from a dataset whose curves have
\* different lengths is rejected with a ValidationError, and no ModePicture
\* is produced.
DifferentLengths(data) ==
    \E j, k \in DOMAIN data : Len(data[j].curve) # Len(data[k].curve)

C4_MismatchIsValidationError ==
    (last.op = "new" /\ DifferentLengths(last.data)) =>
      (last.err = "ValidationError" /\ ~mp[last.i].alive)

\* C5: loading a file whose header has no "Frequency" entry, or one in
\* which no number can be read, ends in ParseError, and the constructor
\* yields no ModePicture.
NoFrequency(file) ==
    \/ ~HasKey(ParseLines(MetadataLines(file), <<>>), kFrequency)
    \/ ~ParseFloat(
          Filter(ValueStr(DictGet(ParseLines(MetadataLines(file), <<>>),
                                  kFrequency)),
                 FreqChars)).ok

Readable(file) == file.exists /\ Len(file.rows) >= 2

C5_NoFrequencyIsParseError ==
    (/\ last.op \in {"load", "newfile"}
     /\ Readable(disk[last.path])
     /\ NoFrequency(disk[last.path])) =>
      /\ last.err = "ParseError"
      /\ last.op = "newfile" => ~mp[last.i].alive

\* C6: a load() that raises leaves the ModePicture it was called on, and
\* its metadata, as they were before the call.
C6_FailedLoadChangesNothing ==
    [][(last'.op = "load" /\ last'.err # "") =>
         (mp' = mp /\ dicts' = dicts)]_vars

\* C7: a construction or load whose final fit does not converge, or yields
\* no standard error, does not return: it raises, and it leaves qvalue and
\* qvalue_stderr as they were.
NotConverged(sol) == sol.raise \/ ~sol.success \/ ~IsNum(sol.stderr)

C7_FailedFitStoresNoQ ==
    [][(/\ last'.op \in {"new", "newfile", "load"}
        /\ NotConverged(last'.sol)) =>
         /\ last'.err # ""
         /\ mp'[last'.i].qvalue = mp[last'.i].qvalue
         /\ mp'[last'.i].qvalue_stderr = mp[last'.i].qvalue_stderr]_vars

\* C8: a call on one ModePicture changes nothing of another, its metadata
\* included, and no call changes the mapping the caller passed in.
ObjectOps == {"new", "newfile", "load", "save"}

C8_NothingShared ==
    [][last'.op \in ObjectOps =>
         /\ dicts'["caller"] = dicts["caller"]
         /\ \A i \in Inst \ {last'.i} :
              mp[i].alive =>
                /\ mp'[i] = mp[i]
                /\ dicts'[mp[i].metadata] = dicts[mp[i].metadata]]_vars

\* C9: the width w of every fit result and its standard error are
\* non-negative, and so are qvalue and qvalue_stderr for a positive freq0.
NonNegative(f) == IsNum(f) => f.v >= 0

C9_WidthNonNegative ==
    \A i \in Inst :
      mp[i].alive =>
        /\ mp[i].fit_result.w >= 0
        /\ NonNegative(mp[i].fit_result.stderr)
        /\ (IsNum(mp[i].freq0) /\ mp[i].freq0.v > 0) =>
             (NonNegative(mp[i].qvalue) /\ NonNegative(mp[i].qvalue_stderr))

\* C10: a file written by save(), when loaded, gives x_data_mhz and y_data
\* with as many samples as the saved curve, in its order, each the saved
\* value at the precision of the file.
AtFilePrecision(a) == [k \in DOMAIN a |-> FmtE(a[k])]

\* the call read the table of the file (what follows may still have raised)
ReadTable(c) ==
    \/ c.op = "newfile" /\ c.err = ""
    \/ c.op = "load" /\ c.err \notin {"OSError", "IndexError"}

FromSave(file) == file.src # <<>>

C10_SaveLoadRoundTrip ==
    (ReadTable(last) /\ FromSave(disk[last.path])) =>
      /\ Len(mp[last.i].x_data_mhz) = Len(disk[last.path].src[1])
      /\ Len(mp[last.i].y_data) = Len(disk[last.path].src[2])
      /\ mp[last.i].x_data_mhz = AtFilePrecision(disk[last.path].src[1])
      /\ mp[last.i].y_data = AtFilePrecision(disk[last.path].src[2])

\* a saved curve of two zoom factors, some of whose frequencies the file
\* does not hold exactly, loaded into a new ModePicture
C10_Witness ==
    /\ last.op = "newfile" /\ last.err = ""
    /\ FromSave(disk[last.path])
    /\ Len(disk[last.path].src[1]) = 16
    /\ disk[last.path].src[1] # AtFilePrecision(disk[last.path].src[1])
    /\ mp[last.i].x_data_mhz = AtFilePrecision(disk[last.path].src[1])

\* C11: load derives the Q-value from the table and the frequency, not
\* from the Q-value of the header: a load into ModePicture 1 that returns,
\* of a file with the table and the "Frequency" value of the file that
\* ModePicture 2 was constructed from, and for which the solver returned
\* what it returned then, gives the qvalue and the qvalue_stderr of 2.
SameTable(a, b) == a.x_data_mhz = b.x_data_mhz /\ a.y_data = b.y_data

SameFrequency(da, db) ==
    /\ HasKey(da, kFrequency) /\ HasKey(db, kFrequency)
    /\ DictGet(da, kFrequency) = DictGet(db, kFrequency)

Reloaded ==
    /\ last.op = "load" /\ last.err = "" /\ last.i = 1
    /\ mp[2].alive
    /\ SameTable(mp[1], mp[2])
    /\ SameFrequency(dicts[mp[1].metadata], dicts[mp[2].metadata])
    /\ mp[1].fit_result = mp[2].fit_result

C11_ReloadDerivesQ ==
    Reloaded => /\ mp[1].qvalue = mp[2].qvalue
                /\ mp[1].qvalue_stderr = mp[2].qvalue_stderr

\* the two files held different Q-values and errors in their headers
C11_Witness ==
    /\ Reloaded
    /\ HasKey(dicts[mp[1].metadata], kQValue)
    /\ HasKey(dicts[mp[2].metadata], kQValue)
    /\ DictGet(dicts[mp[1].metadata], kQValue)
         # DictGet(dicts[mp[2].metadata], kQValue)
    /\ DictGet(dicts[mp[1].metadata], kQValueErr)
         # DictGet(dicts[mp[2].metadata], kQValueErr)

\* C12: loading a file that save() wrote gives a metadata mapping with
\* the keys of the saved one, in their order, each with the text save()
\* wrote for its value; the line of the column titles gives no entry.
SavedText(md) ==
    [k \in DOMAIN md |->
       [key |-> md[k].key, val |-> StrVal(ValueStr(md[k].val))]]

C12_MetadataRoundTrip ==
    (ReadTable(last) /\ FromSave(disk[last.path])) =>
      dicts[mp[last.i].metadata] = SavedText(disk[last.path].src[3])

\* C13: a load that returns, of the file that a ModePicture constructed
\* from a dataset with center frequency f saved, gives freq0 = f.
\* (In SpecFreq ModePicture 1 is constructed from a dataset and saves, and
\* ModePicture 2 loads.)
C13_FrequencyRoundTrip ==
    (/\ last.i = 2 /\ last.op \in {"newfile", "load"} /\ last.err = ""
     /\ FromSave(disk[last.path])
     /\ FromData(1)) =>
      mp[2].freq0 = mp[1].freq0

\* C14: the fit_result of a ModePicture constructed from a dataset is
\* what the solver returned in the final fit, and qvalue and
\* qvalue_stderr are derived from its width with zoom factor 1:
\* round(freq0 / (w * 1e-3 / 2), 1) and
\* round(freq0 / (w * 1e-3 / 2) ** 2 * (stderr * 1e-3 / 2), 1),
\* whatever the zoom factors of the dataset and the per-zoom fits were.
C14_FinalFitZoomOne ==
    (last.op = "new" /\ last.err = "" /\ mp[last.i].fit_result.w # 0) =>
      /\ mp[last.i].fit_result.stderr = last.sol.stderr
      /\ mp[last.i].fit_result.success = last.sol.success
      /\ mp[last.i].qvalue =
           Num(RoundDiv(20 * mp[last.i].freq0.v, mp[last.i].fit_result.w))
      /\ mp[last.i].qvalue_stderr =
           Num(RoundDiv(20 * mp[last.i].freq0.v
                           * mp[last.i].fit_result.stderr.v,
                        mp[last.i].fit_result.w * mp[last.i].fit_result.w))

\* a dataset of the zoom factors 4 and 2, whose per-zoom fits all ended
\* otherwise than the final fit
C14_Witness ==
    /\ last.op = "new" /\ last.err = "" /\ mp[last.i].fit_result.w # 0
    /\ Len(last.data) = 2
    /\ \A k \in DOMAIN last.data : last.data[k].zf > 1
    /\ \A k \in DOMAIN last.sols : last.sols[k] # last.sol
    /\ mp[last.i].qvalue.v # 0

\* C15: in every ModePicture x_data_points is as long as x_data_mhz and
\* x_data_points[i] = 2000 * x_data_mhz[i] (in the units of the model,
\* mp = 2 * Hz).
C15_PointsFromFrequency ==
    \A i \in Inst :
      mp[i].alive =>
        /\ Len(mp[i].x_data_points) = Len(mp[i].x_data_mhz)
        /\ \A k \in DOMAIN mp[i].x_data_mhz :
             mp[i].x_data_points[k] = 2 * mp[i].x_data_mhz[k]

\* one ModePicture combined from two zoom factors, after a load() of a
\* file that was not saved from it, and one constructed from a file
C15_Witness ==
    /\ mp[1].alive /\ Len(mp[1].mode_pic_data) = 2
    /\ mp[1].y_data = cNarrow
    /\ mp[2].alive /\ mp[2].mode_pic_data = <<>>
    /\ Len(mp[2].x_data_mhz) = 16

\* C16: combine_data gives sample i of the curve with zoom factor z the
\* frequency (i - x0_z) / (2000 * z), x0_z being the center the solver
\* returned for that curve (its starting center, the sample of the least
\* absorption, plus the solver's shift), and every curve n_points of them:
\* the combined curve holds exactly these frequencies, each with the
\* absorption of its sample.
ZoomCenter(data, sols, k) == MP(ArgMin(data[k].curve)) + sols[k].dx0

\* 1000 * i - x0_z is in mp and the frequency in Hz: Hz = mp / (2 * z)
ZoomHz(data, sols, k) ==
    [i \in 1 .. Len(data[1].curve) |->
       (1000 * (i - 1) - ZoomCenter(data, sols, k)) \div (2 * data[k].zf)]

\* the divisions of ZoomHz leave no remainder
ZoomHzExact(data, sols) ==
    \A k \in DOMAIN data : \A i \in 1 .. Len(data[1].curve) :
      (1000 * (i - 1) - ZoomCenter(data, sols, k)) % (2 * data[k].zf) = 0

C16_PerZoomAxis ==
    (last.op = "new" /\ last.err = "") =>
      /\ ZoomHzExact(last.data, last.sols)
      /\ Len(mp[last.i].x_data_mhz) = Len(last.data) * Len(last.data[1].curve)
      /\ SameBag(Pairs(mp[last.i].x_data_mhz, mp[last.i].y_data),
                 Flatten([k \in DOMAIN last.data |->
                            Pairs(ZoomHz(last.data, last.sols, k),
                                  last.data[k].curve)]))

\* two zoom factors whose fits returned different centers
C16_Witness ==
    /\ last.op = "new" /\ last.err = "" /\ Len(last.data) = 2
    /\ last.data[1].zf # last.data[2].zf
    /\ ZoomCenter(last.data, last.sols, 1) # ZoomCenter(last.data, last.sols, 2)

C18_EmptyIsValidationError ==
    (last.op = "new" /\ last.data = dEmpty) =>
      (last.err = "ValidationError" /\ ~mp[last.i].alive)

\* C19: the samples of the background seed of the final fit are exactly
\* those farther than 3 * fwhm from the estimated center: none within the
\* region is used, and every one outside it, the last included, is used.
\* The Python indices of the samples outside the dip region:
FarFromDip(x, sp) ==
    {k - 1 : k \in {j \in DOMAIN x :
                      \/ x[j] < sp.center - 3 * sp.fwhm
                      \/ x[j] > sp.center + 3 * sp.fwhm}}

C19_BackgroundOutsideDip ==
    (last.op = "new" /\ last.err = "") =>
      BackgroundIdx(mp[last.i].x_data_points,
                    GetFitStartingPoints(mp[last.i].x_data_points,
                                         mp[last.i].y_data).val.center,
                    GetFitStartingPoints(mp[last.i].x_data_points,
                                         mp[last.i].y_data).val.fwhm)
        = FarFromDip(mp[last.i].x_data_points,
                     GetFitStartingPoints(mp[last.i].x_data_points,
                                          mp[last.i].y_data).val)

\* C20: for every fitted curve of n >= 4 samples the two slices whose
\* means make the baseline are the first quartile by index (0 ..
\* floor(n/4) - 1) and the last quartile by index (n - floor(n/4) ..
\* n - 1, the final sample included): the first slice is that quartile,
\* and the second has the mean of that quartile.
SameMean(s, t) ==
    /\ Len(s) > 0 /\ Len(t) > 0
    /\ SeqSum(s) * Len(t) = SeqSum(t) * Len(s)

FittedCurves == {last.data[k].curve : k \in DOMAIN last.data}
                  \cup {mp[last.i].y_data}

C20_BaselineFromQuartiles ==
    (last.op = "new" /\ last.err = "") =>
      \A y \in FittedCurves :
        Len(y) >= 4 =>
          /\ FirstQuartile(Len(y), y) = SubSeq(y, 1, Len(y) \div 4)
          /\ SameMean(LastQuartile(Len(y), y),
                      SubSeq(y, Len(y) - (Len(y) \div 4) + 1, Len(y)))

\* C21: for every non-empty curve, flat ones and dips one sample wide
\* included, _get_fit_starting_points returns: the width estimate is at
\* least one point and the center is the x value at the first global
\* minimum of y.  Stated of the first curve of every non-empty dataset a
\* construction was called with, which combine_data fits against
\* np.arange(n_points).
FirstStart(data) ==
    GetFitStartingPoints(Arange(Len(data[1].curve)), data[1].curve)

C21_StartingPointsReturned ==
    (last.op = "new" /\ last.data # <<>>) =>
      /\ FirstStart(last.data).ok
      /\ FirstStart(last.data).val.fwhm >= MinFwhm
      /\ FirstStart(last.data).val.center
           = MP(ArgMin(last.data[1].curve))

\* C22: after a construction from a dataset that returned, metadata holds
\* "Time", "Frequency", "QValue" and "QValueErr", the last two being
\* qvalue and qvalue_stderr, and every other key the caller supplied with
\* its value; a construction that raised wrote none of them.
ComputedKeys == {kTime, kFrequency, kQValue, kQValueErr}

HoldsComputed(d, o) ==
    /\ \A key \in ComputedKeys : HasKey(d, key)
    /\ DictGet(d, kTime).t = "str"
    /\ DictGet(d, kFrequency).t = "str"
    /\ DictGet(d, kQValue) = FloatVal(o.qvalue)
    /\ DictGet(d, kQValueErr) = FloatVal(o.qvalue_stderr)

KeepsSupplied(d, supplied) ==
    \A k \in DOMAIN supplied :
      supplied[k].key \notin ComputedKeys =>
        /\ HasKey(d, supplied[k].key)
        /\ DictGet(d, supplied[k].key) = supplied[k].val

C22_MetadataAfterConstruction ==
    [][last'.op = "new" =>
         IF last'.err = ""
           THEN /\ HoldsComputed(dicts'[mp'[last'.i].metadata], mp'[last'.i])
                /\ last'.marg = "caller" =>
                     KeepsSupplied(dicts'[mp'[last'.i].metadata],
                                   dicts["caller"])
           ELSE dicts' = dicts]_vars

\* a returned construction with the caller's mapping, which held a key
C22_Witness ==
    /\ last.op = "new" /\ last.err = "" /\ last.marg = "caller"
    /\ mp[last.i].metadata = "caller"
    /\ Len(dicts["caller"]) = 5
    /\ mp[last.i].qvalue # mp[last.i].qvalue_stderr

(***************************************************************************)
(* The job window: JobStatusApp (src/xeprtools/customxper_ui.py).          *)
(*   job_queue         the items of customXepr.job_queue, a queue.Queue of *)
(*                     the Python library; a job is its number             *)
(*   unfinished_tasks  the queue's count of items put and not yet done     *)
(*   jobQueueModel     the rows of the job view: the job each row shows    *)
(*   posted            signals emitted in other threads and queued for the *)
(*                     window's thread, in order                           *)
(*   gui               what the window's thread is doing: pc "idle" (in    *)
(*                     the event loop), "get" / "task_done" (in            *)
(*                     on_clear_clicked, n iterations left), "menu" (in    *)
(*                     popup_menu.exec_, rows i0..i1 selected), "del" (in  *)
(*                     the deletion loop at index n); err: the exception   *)
(*                     that ended its last slot                            *)
(*   worker            the job the worker thread is running (0: none)      *)
(*   pause_event, pauseButton, timeout_timer: as in the code; time is      *)
(*                     counted in ticks                                    *)
(***************************************************************************)
MaxJobs == 3
MaxUpdates == 1

\* _timeout_min, in ticks
Interval == 2

\* s without the element at Python index i
RemoveAt(s, i) == SubSeq(s, 1, i) \o SubSeq(s, i + 2, Len(s))

\* QStandardItemModel.removeRow(i): nothing happens for a row that is not
RemoveRow(rows, i) == IF i < Len(rows) THEN RemoveAt(rows, i) ELSE rows

\* checkPaused: the text of the pause button for the state of pause_event
CheckPausedStale(ev, text) == text

CheckPaused(ev, text) == IF ev THEN "Resume" ELSE "Pause"

\* timeout_timer.start(): the single-shot timer runs a full interval anew
TimerStart(t) == [active |-> TRUE, left |-> Interval]

\* populateJobs: addJob(i) for every i in range(qsize())
PopulateJobs(q) == [i \in 1 .. Len(q) |-> q[i]]

\* the window after __init__, for a queue of k jobs
InitWindow ==
    /\ \E k \in 0 .. 1 :
         /\ job_queue = [j \in 1 .. k |-> j]
         /\ unfinished_tasks = k
         /\ jobQueueModel = PopulateJobs([j \in 1 .. k |-> j])
         /\ log = [NoLog EXCEPT !.jobs = k]
    /\ posted = <<>>
    /\ gui = GuiIdle
    /\ worker = 0
    /\ pause_event \in BOOLEAN
    /\ pauseButton = CheckPaused(pause_event, "")
    /\ timeout_timer = TimerOff

NoPictures ==
    /\ mp = [i \in Inst |-> Blank]
    /\ dicts = [d \in DictIds |-> <<>>]
    /\ disk = [p \in Paths |-> NoFile]
    /\ last = Call("init", 1, "", <<>>, "none", <<>>, "", solNone)
    /\ used = {}
    /\ matplotlib = TRUE

InitGui == NoPictures /\ InitWindow

\* the slots of status_signal: statusField.setText, checkPaused,
\* getEmailList and timeout_timer.start
StatusSlotsAfter(kind, text) ==
    /\ pauseButton' = CheckPaused(pause_event', text)
    /\ timeout_timer' = TimerStart(timeout_timer)
    /\ log' = [log EXCEPT !.since = 0, !.signal = kind]

StatusSlots(kind) == StatusSlotsAfter(kind, pauseButton)

\* ---- other threads ----
\* job_queue.put(job) in a thread that is not the window's
QueuePut ==
    /\ log.jobs < MaxJobs
    /\ job_queue' = Append(job_queue, log.jobs + 1)
    /\ unfinished_tasks' = unfinished_tasks + 1
    /\ posted' = Append(posted, "put")
    /\ log' = [log EXCEPT !.jobs = @ + 1]
    /\ UNCHANGED <<picvars, jobQueueModel, gui, worker, pause_event,
                   pauseButton, timeout_timer>>

\* the worker thread takes the next job: job_queue.get()
WorkerGet ==
    /\ worker = 0 /\ ~pause_event /\ job_queue # <<>>
    /\ worker' = Head(job_queue)
    /\ job_queue' = Tail(job_queue)
    /\ posted' = Append(posted, "pop")
    /\ UNCHANGED <<picvars, unfinished_tasks, jobQueueModel, gui, pause_event,
                   pauseButton, timeout_timer, log>>

\* the worker thread ends its job: job_queue.task_done()
WorkerTaskDone ==
    /\ worker # 0
    /\ worker' = 0
    /\ unfinished_tasks' = unfinished_tasks - 1
    /\ UNCHANGED <<picvars, job_queue, jobQueueModel, posted, gui,
                   pause_event, pauseButton, timeout_timer, log>>

\* a record of level STATUS or higher is logged in another thread
LogStatus ==
    /\ log.updates < MaxUpdates
    /\ posted' = Append(posted, "status")
    /\ log' = [log EXCEPT !.updates = @ + 1]
    /\ UNCHANGED <<picvars, job_queue, unfinished_tasks, jobQueueModel, gui,
                   worker, pause_event, pauseButton, timeout_timer>>

\* pause_event is set or cleared by another holder of the event
PauseElsewhere ==
    /\ pause_event' = ~pause_event
    /\ UNCHANGED <<picvars, job_queue, unfinished_tasks, jobQueueModel,
                   posted, gui, worker, pauseButton, timeout_timer, log>>

\* ---- the window's thread: the event loop ----
InEventLoop == gui.pc \in {"idle", "menu"}

\* addJob(): a row for job_queue.queue[-1]
AddJob ==
    /\ InEventLoop /\ posted # <<>> /\ Head(posted) = "put"
    /\ posted' = Tail(posted)
    /\ IF job_queue = <<>>
         THEN /\ gui' = [gui EXCEPT !.err = "IndexError"]
              /\ jobQueueModel' = jobQueueModel
         ELSE /\ gui' = gui
              /\ jobQueueModel' =
                   Append(jobQueueModel, job_queue[Len(job_queue)])
    /\ UNCHANGED <<picvars, job_queue, unfinished_tasks, worker, pause_event,
                   pauseButton, timeout_timer, log>>

\* removeJob(): the top row goes
RemoveJob ==
    /\ InEventLoop /\ posted # <<>> /\ Head(posted) = "pop"
    /\ posted' = Tail(posted)
    /\ jobQueueModel' = RemoveRow(jobQueueModel, 0)
    /\ UNCHANGED <<picvars, job_queue, unfinished_tasks, gui, worker,
                   pause_event, pauseButton, timeout_timer, log>>

\* status_signal of a record logged in another thread
StatusSignal ==
    /\ InEventLoop /\ posted # <<>> /\ Head(posted) = "status"
    /\ posted' = Tail(posted)
    /\ pause_event' = pause_event
    /\ StatusSlots("status")
    /\ UNCHANGED <<picvars, job_queue, unfinished_tasks, jobQueueModel, gui,
                   worker>>

\* ---- on_tune_clicked, on_qValue_clicked ----
\* customXepr.customtune() puts a job; put_signal is emitted in the
\* window's thread, so addJob runs at once; with more than one job in the
\* queue logger.info(...) then runs the slots of status_signal
OnTuneClicked ==
    /\ gui.pc = "idle" /\ log.jobs < MaxJobs
    /\ job_queue' = Append(job_queue, log.jobs + 1)
    /\ unfinished_tasks' = unfinished_tasks + 1
    /\ jobQueueModel' = Append(jobQueueModel, log.jobs + 1)
    /\ pause_event' = pause_event
    /\ IF Len(job_queue) + 1 > 1
         THEN /\ pauseButton' = CheckPaused(pause_event, pauseButton)
              /\ timeout_timer' = TimerStart(timeout_timer)
              /\ log' = [log EXCEPT !.jobs = @ + 1, !.since = 0,
                                    !.signal = "status"]
         ELSE /\ log' = [log EXCEPT !.jobs = @ + 1]
              /\ UNCHANGED <<pauseButton, timeout_timer>>
    /\ UNCHANGED <<picvars, posted, gui, worker>>

\* ---- on_clear_clicked ----
\* for item in range(0, self.job_queue.qsize()): the count is read once
ClearCount(q) == Len(q)

ClearLoop(n) == IF n = 0 THEN GuiIdle ELSE [GuiIdle EXCEPT !.pc = "get", !.n = n]

OnClearClicked ==
    /\ gui.pc = "idle"
    /\ gui' = ClearLoop(ClearCount(job_queue))
    /\ log' = [log EXCEPT !.cleared = <<>>, !.done = 0]
    /\ UNCHANGED <<picvars, job_queue, unfinished_tasks, jobQueueModel,
                   posted, worker, pause_event, pauseButton, timeout_timer>>

\* self.job_queue.get(): waits while the queue is empty; pop_signal is
\* emitted in the window's thread, so removeJob runs at once
ClearGet ==
    /\ gui.pc = "get" /\ job_queue # <<>>
    /\ job_queue' = Tail(job_queue)
    /\ jobQueueModel' = RemoveRow(jobQueueModel, 0)
    /\ gui' = [gui EXCEPT !.pc = "task_done"]
    /\ log' = [log EXCEPT !.cleared = Append(@, Head(job_queue))]
    /\ UNCHANGED <<picvars, unfinished_tasks, posted, worker, pause_event,
                   pauseButton, timeout_timer>>

\* self.job_queue.task_done(), and the next iteration or the return
ClearTaskDone ==
    /\ gui.pc = "task_done"
    /\ unfinished_tasks' = unfinished_tasks - 1
    /\ gui' = ClearLoop(gui.n - 1)
    /\ log' = [log EXCEPT !.done = @ + 1]
    /\ UNCHANGED <<picvars, job_queue, jobQueueModel, posted, worker,
                   pause_event, pauseButton, timeout_timer>>

\* ---- openJobContextMenu ----
\* the rows i0 .. i1 are selected; popup_menu.exec_ runs an event loop
OpenJobContextMenu ==
    /\ gui.pc = "idle"
    /\ \E i0 \in 0 .. Len(jobQueueModel) - 1 :
         \E i1 \in i0 .. Len(jobQueueModel) - 1 :
           /\ gui' = [GuiIdle EXCEPT !.pc = "menu", !.i0 = i0, !.i1 = i1]
           /\ log' = [log EXCEPT
                        !.shown = SubSeq(jobQueueModel, i0 + 1, i1 + 1),
                        !.deleted = <<>>]
    /\ UNCHANGED <<picvars, job_queue, unfinished_tasks, jobQueueModel,
                   posted, worker, pause_event, pauseButton, timeout_timer>>

\* the menu is left without a choice
MenuDismissed ==
    /\ gui.pc = "menu"
    /\ gui' = GuiIdle
    /\ UNCHANGED <<picvars, job_queue, unfinished_tasks, jobQueueModel,
                   posted, worker, pause_event, pauseButton, timeout_timer,
                   log>>

\* 'Delete entry' is chosen: for i in range(i1, i0-1, -1)
MenuDelete ==
    /\ gui.pc = "menu"
    /\ gui' = [gui EXCEPT !.pc = "del", !.n = gui.i1]
    /\ UNCHANGED <<picvars, job_queue, unfinished_tasks, jobQueueModel,
                   posted, worker, pause_event, pauseButton, timeout_timer,
                   log>>

\* the loop after the iteration at index i
DeleteLoop(g, i) == IF i - 1 < g.i0 THEN GuiIdle ELSE [g EXCEPT !.n = i - 1]

\* del self.job_queue.queue[i]; task_done(); jobQueueModel.removeRow(i)
DeleteStep ==
    /\ gui.pc = "del"
    /\ IF gui.n >= Len(job_queue)
         THEN /\ gui' = [GuiIdle EXCEPT !.err = "IndexError"]
              /\ UNCHANGED <<job_queue, unfinished_tasks, jobQueueModel, log>>
         ELSE /\ job_queue' = RemoveAt(job_queue, gui.n)
              /\ unfinished_tasks' = unfinished_tasks - 1
              /\ jobQueueModel' = RemoveRow(jobQueueModel, gui.n)
              /\ gui' = DeleteLoop(gui, gui.n)
              /\ log' = [log EXCEPT
                           !.deleted = <<job_queue[gui.n + 1]>> \o @]
    /\ UNCHANGED <<picvars, posted, worker, pause_event, pauseButton,
                   timeout_timer>>

\* ---- on_pause_clicked ----
\* the event is set and the button reads 'Resume', or the event is
\* cleared, the button reads 'Pause' and logger.status('IDLE') runs the
\* slots of status_signal in the window's thread
PauseFlip(ev) == ~ev

OnPauseClicked ==
    /\ gui.pc = "idle"
    /\ pause_event' = PauseFlip(pause_event)
    /\ IF ~pause_event
         THEN /\ pauseButton' = "Resume"
              /\ UNCHANGED <<timeout_timer, log>>
         ELSE StatusSlotsAfter("status", "Pause")
    /\ UNCHANGED <<picvars, job_queue, unfinished_tasks, jobQueueModel,
                   posted, gui, worker>>

\* ---- the universal timeout ----
\* time passes by one tick, but not beyond the moment a due timer can fire
Tick ==
    /\ ~(timeout_timer.active /\ timeout_timer.left = 0 /\ InEventLoop)
    /\ timeout_timer' =
         IF timeout_timer.active /\ timeout_timer.left > 0
           THEN [timeout_timer EXCEPT !.left = @ - 1] ELSE timeout_timer
    /\ log' = [log EXCEPT !.since = IF @ > Interval THEN @ ELSE @ + 1]
    /\ UNCHANGED <<picvars, job_queue, unfinished_tasks, jobQueueModel,
                   posted, gui, worker, pause_event, pauseButton>>

\* timeout_warning: logger.warning(...) when tasks are unfinished; the
\* record is of a level above STATUS and runs the slots of status_signal
Warns(n) == n > 0

TimeoutWarning ==
    /\ timeout_timer.active /\ timeout_timer.left = 0 /\ InEventLoop
    /\ pause_event' = pause_event
    /\ IF Warns(unfinished_tasks)
         THEN StatusSlots("warning")
         ELSE /\ timeout_timer' = TimerOff
              /\ UNCHANGED <<pauseButton, log>>
    /\ UNCHANGED <<picvars, job_queue, unfinished_tasks, jobQueueModel,
                   posted, gui, worker>>

\* ---- specifications ----
\* the worker thread
Worker == WorkerGet \/ WorkerTaskDone

\* the slots of the queue's signals
QueueSlots == AddJob \/ RemoveJob

\* a job is put while the window's thread is in its event loop
PutWhileIdle == gui.pc = "idle" /\ QueuePut

\* SpecClear: on_clear_clicked beside the worker thread.  The window's
\* thread runs whenever it can, and a job the worker runs ends.
OnClear == OnClearClicked \/ ClearGet \/ ClearTaskDone

NextClear == PutWhileIdle \/ Worker \/ QueueSlots \/ OnClear

SpecClear ==
    /\ InitGui /\ [][NextClear]_vars
    /\ WF_vars(ClearGet) /\ WF_vars(ClearTaskDone) /\ WF_vars(QueueSlots)
    /\ WF_vars(WorkerTaskDone)

\* C23: on_clear_clicked returns in every interleaving with the worker
\* thread; when it returns job_queue is empty and task_done was called
\* once for each job it removed.
InOnClear == gui.pc \in {"get", "task_done"}

C23_ClearReturnsEmpty ==
    /\ InOnClear ~> (gui.pc = "idle")
    /\ [][(InOnClear /\ gui'.pc = "idle") =>
            /\ job_queue' = <<>>
            /\ log'.done = Len(log'.cleared)]_vars

\* SpecJobs: the job view beside the queue: jobs put from the window and
\* taken by the worker thread, on_clear_clicked and the context menu
JobContextMenu ==
    OpenJobContextMenu \/ MenuDismissed \/ MenuDelete \/ DeleteStep

NextJobs == OnTuneClicked \/ Worker \/ RemoveJob \/ OnClear \/ JobContextMenu

SpecJobs == InitGui /\ [][NextJobs]_vars

\* C24: whenever the window's thread is back in its event loop with no
\* signal of the queue left to handle, jobQueueModel has one row per item
\* of job_queue, in the same order; and a deletion from the context menu
\* has removed from job_queue exactly the jobs the selected rows showed.
Settled == gui.pc = "idle" /\ posted = <<>>

C24_ViewMirrorsQueue ==
    [][/\ Settled' => jobQueueModel' = job_queue'
       /\ (gui.pc = "del" /\ gui'.pc = "idle") =>
            (gui'.err = "" /\ log'.deleted = log'.shown)]_vars

\* SpecPause: the pause button beside the event, which other holders set
\* and clear; status records make checkPaused run
NextPause ==
    OnPauseClicked \/ PauseElsewhere \/ LogStatus \/ StatusSignal
      \/ OnTuneClicked \/ Worker \/ RemoveJob

SpecPause == InitGui /\ [][NextPause]_vars

\* C25: each on_pause_clicked flips pause_event, and after every
\* on_pause_clicked and every checkPaused the button reads 'Resume' if
\* pause_event is set and 'Pause' if it is not.
RunsCheckPaused ==
    \/ StatusSignal
    \/ OnTuneClicked /\ job_queue # <<>>
    \/ OnPauseClicked /\ pause_event

ButtonShowsEvent == pauseButton = (IF pause_event THEN "Resume" ELSE "Pause")

NextTimeout ==
    OnTuneClicked \/ Worker \/ RemoveJob \/ LogStatus \/ StatusSignal
      \/ Tick \/ TimeoutWarning

SpecTimeout ==
    /\ InitGui /\ [][NextTimeout]_vars
    /\ WF_vars(Tick) /\ WF_vars(TimeoutWarning) /\ WF_vars(StatusSignal)

\* C26: a warning is issued only when a full interval has passed since the
\* last status update and tasks are unfinished, a due timer does warn
\* when tasks are unfinished, and whenever jobs are unfinished and the
\* status updates have stopped a warning is eventually issued.
IssuesWarning == TimeoutWarning /\ log'.signal = "warning" /\ log'.since = 0

C26_WarningAfterSilence ==
    /\ [][/\ IssuesWarning =>
               (log.since >= Interval /\ unfinished_tasks > 0)
          /\ (TimeoutWarning /\ unfinished_tasks > 0) => IssuesWarning]_vars
    /\ (unfinished_tasks > 0) ~>
         (unfinished_tasks = 0 \/ log.signal = "warning")

====
